---- MODULE Spec2Model ----
(***************************************************************************)
(* Invoice numbering and ledger of twratqueen/invoice.                     *)
(*                                                                         *)
(* The state is the relational store (invoice_numbers, invoices,           *)
(* invoice_items, annual_stats, audit_logs, users), the session store,     *)
(* the wall clock, and the position and locals of every request handler    *)
(* in flight.  Every `await` on the store is one step, so handlers         *)
(* interleave exactly where the event loop lets them.  Statements issued   *)
(* on `tx` are staged in the handler's transaction and reach the tables at *)
(* COMMIT; statements issued on `db` are applied at once (autocommit).     *)
(*                                                                         *)
(* Strings are sequences of one-character strings, so that formatting      *)
(* (padStart, substring, template literals) and parsing (parseInt) are     *)
(* computed and not assumed.                                               *)
(***************************************************************************)
EXTENDS Integers, Sequences, FiniteSets

VARIABLES
    today,           \* what `new Date()` returns: [year, month, day, hours]
    users,           \* table users: id -> row, for the ids that exist
    sessions,        \* session store: session id -> session.userId, or None
    invoiceNumbers,  \* table invoice_numbers: set of rows
    rangeIdSeq,      \* serial of invoice_numbers.id (last value handed out)
    invoices,        \* table invoices: set of rows
    invoiceIdSeq,    \* serial of invoices.id (last value handed out)
    invoiceItems,    \* table invoice_items: set of rows
    annualStats,     \* table annual_stats: sequence of rows, id = position
    auditLogs,       \* table audit_logs: sequence of rows, id = position
    proc,            \* per handler: position, locals, outcome of its last call
    calls,           \* history: calls received so far
    lost,            \* history: numbers allocated to a createInvoice that failed
    allocCount       \* history: successful allocations per range id

dbVars == <<invoiceNumbers, rangeIdSeq, invoices, invoiceIdSeq, invoiceItems,
            annualStats, auditLogs>>
ledgerVars == <<invoices, invoiceItems, annualStats, auditLogs>>
histVars == <<calls, lost, allocCount>>
vars == <<today, users, sessions, invoiceNumbers, rangeIdSeq, invoices,
          invoiceIdSeq, invoiceItems, annualStats, auditLogs, proc, calls,
          lost, allocCount>>

----------------------------------------------------------------------------
(* Bounds of the model *)

\* calls explored by the ledger specification
MaxCalls == 3
\* largest grandTotal of a request
MaxAmount == 1
\* most line items of a request
MaxItems == 1
\* free slots left in the range the exhaustion specification starts from
Headroom == 1
\* calls explored by the creation and the exhaustion specifications
MaxCreates == 2
\* calls explored by the race specification
MaxRaceCalls == 4
\* calls explored by the period-gate specification
MaxGateCalls == 1
\* calls explored by the accounts specification
MaxAuthCalls == 2
\* calls explored by the statistics specification
MaxStatsCalls == 3
\* calls explored by the upload specification
MaxUploadCalls == 3
\* calls explored by the sequential specification
MaxSeqCalls == 3
\* calls explored by the audit specification
MaxAuditCalls == 3
\* calls explored by the drain specification
MaxDrainCalls == 3
\* calls explored by the session specification
MaxSessionCalls == 3
\* the calendar year the specifications are set in
BaseYear == 2025

Procs == {"p1", "p2"}
Users == {"u1", "u2"}

----------------------------------------------------------------------------
(* Strings *)

DigitChars == <<"0", "1", "2", "3", "4", "5", "6", "7", "8", "9">>

DigitValue(ch) == (CHOOSE i \in 1..10 : DigitChars[i] = ch) - 1

RECURSIVE toString(_)
\* Number.prototype.toString() of a non-negative integer
toString(n) ==
    IF n < 10 THEN <<DigitChars[n + 1]>>
    ELSE toString(n \div 10) \o <<DigitChars[(n % 10) + 1]>>

\* String.prototype.padStart(targetLength, ch)
padStart(s, targetLength, ch) ==
    IF Len(s) >= targetLength THEN s
    ELSE [i \in 1..(targetLength - Len(s)) |-> ch] \o s

\* String.prototype.substring(from, to), zero-based, `to` exclusive
substring(s, from, to) == SubSeq(s, from + 1, to)

RECURSIVE parseInt(_)
\* parseInt of a string of decimal digits
parseInt(s) ==
    IF Len(s) = 0 THEN 0
    ELSE 10 * parseInt(SubSeq(s, 1, Len(s) - 1)) + DigitValue(s[Len(s)])

----------------------------------------------------------------------------
(* Period calculator: InvoiceNumberService *)

\* Variant: the period of a month by rounding half down, so that an even
\* month falls into the period after its own.
CeilHalf_next(month) == (month + 2) \div 2

\* Math.ceil(month / 2) for month in 1..12
CeilHalf(month) == (month + 1) \div 2

PeriodLabel(year, period) ==
    LET startMonth == (period - 1) * 2 + 1
        endMonth == period * 2
    IN  toString(year) \o padStart(toString(startMonth), 2, "0")
                       \o padStart(toString(endMonth), 2, "0")

getCurrentYearMonth(now) ==
    LET year == now.year
        month == now.month
        period == CeilHalf(month)
    IN  PeriodLabel(year, period)

getNextYearMonth(now) ==
    LET year == now.year
        month == now.month
        currentPeriod == CeilHalf(month)
        nextPeriod == IF currentPeriod + 1 > 6 THEN 1 ELSE currentPeriod + 1
        nextYear == IF currentPeriod + 1 > 6 THEN year + 1 ELSE year
    IN  PeriodLabel(nextYear, nextPeriod)

\* Variant: the next period opens a day late.
canOpenNextPeriodInvoice_gt(currentDate) == currentDate.day > 20

canOpenNextPeriodInvoice(currentDate) == currentDate.day >= 20

\* The part of getAvailableInvoiceNumber before the range is touched:
\* "ok", or the error it throws.
PeriodGate(requestedYearMonth, now) ==
    IF requestedYearMonth # getCurrentYearMonth(now)
    THEN IF ~canOpenNextPeriodInvoice(now) THEN "not_yet_open"
         ELSE IF requestedYearMonth # getNextYearMonth(now)
              THEN "only_current_or_next"
              ELSE "ok"
    ELSE "ok"


----------------------------------------------------------------------------
(* Handlers in flight *)

\* An absent value is the empty sequence, a present one a sequence of one.
None == <<>>
Some(x) == <<x>>

EmptyTx == [inv |-> None, items |-> {}, stat |-> None, audit |-> None,
            invUpd |-> None]

\* Outcome of a call: "ok" or the error thrown, and the statement it ended at.
Outcome(op, result, at) == [op |-> op, result |-> result, at |-> at]

IdleProc ==
    [pc |-> "idle", op |-> "", userId |-> "", yearMonth |-> None,
     amount |-> 0, nItems |-> 0, itemsDone |-> 0, target |-> 0,
     targetNumber |-> None, data |-> "", range |-> None,
     invoiceNumber |-> None, invoice |-> None, existingStats |-> None,
     user |-> None, hashedPassword |-> None, stats |-> None, queue |-> {},
     successCount |-> 0, failedCount |-> 0,
     sessionId |-> "",
     downloaded |-> FALSE,  \* history: the call inserted the range it holds
     tx |-> EmptyTx, last |-> Outcome("", "", "")]

Others(p) == Procs \ {p}

\* p1 is the handler that arrived first: p2 runs only beside a busy p1
\* (the two handlers are interchangeable).
MayStart(p, maxCalls) ==
    /\ proc[p].pc = "idle"
    /\ calls < maxCalls
    /\ p = "p2" => proc["p1"].pc # "idle"

\* Handler p after its first statement: on its way at `pc` with `locals`,
\* or already returned with the error `check` (the period it asked for is
\* kept beside the outcome).
Started(p, op, check, at, pc, locals) ==
    IF check = "ok"
    THEN [proc EXCEPT ![p] = [locals EXCEPT !.pc = pc, !.op = op,
                                 !.last = Outcome(op, "running", "")]]
    ELSE [proc EXCEPT ![p] = [IdleProc EXCEPT !.last = Outcome(op, check, at),
                                 !.yearMonth = locals.yearMonth]]

\* The call of handler p returns or throws: `result` is "ok" or the error.
Finish(p, result) ==
    proc' = [proc EXCEPT ![p] =
               [IdleProc EXCEPT !.last = Outcome(proc[p].op, result, proc[p].pc)]]

\* The tables after COMMIT of handler p's transaction.
committedInvoices(p) ==
    LET t == proc[p].tx
        ins == IF t.inv = None THEN invoices ELSE invoices \cup {t.inv[1]}
    IN  IF t.invUpd = None THEN ins
        ELSE {IF i.id = t.invUpd[1].id
              THEN [i EXCEPT !.status = t.invUpd[1].status] ELSE i : i \in ins}

committedStats(p) ==
    LET t == proc[p].tx
    IN  IF t.stat = None THEN annualStats
        ELSE IF t.stat[1].kind = "insert"
             THEN Append(annualStats, t.stat[1].row)
             ELSE [annualStats EXCEPT ![t.stat[1].id] = t.stat[1].row]

\* Variant: the audit insert of a transaction replaces the log.
committedAudit_replace(p) ==
    IF proc[p].tx.audit = None THEN auditLogs ELSE <<proc[p].tx.audit[1]>>

committedAudit(p) ==
    IF proc[p].tx.audit = None THEN auditLogs
    ELSE Append(auditLogs, proc[p].tx.audit[1])

applyTx(p) ==
    /\ invoices' = committedInvoices(p)
    /\ invoiceItems' = invoiceItems \cup proc[p].tx.items
    /\ annualStats' = committedStats(p)
    /\ auditLogs' = committedAudit(p)

\* Variant: the error is caught inside the callback, so what was staged is
\* committed.
rollback_commits(p) == applyTx(p)

\* db.transaction when its callback throws: ROLLBACK, nothing staged is kept.
rollback(p) == UNCHANGED ledgerVars

\* A statement of handler p's transaction throws `err`.  A number that
\* createInvoice was handed before is recorded as lost.
Throw(p, err) ==
    /\ rollback(p)
    /\ Finish(p, err)
    /\ lost' = IF proc[p].op = "createInvoice" /\ proc[p].invoiceNumber # None
               THEN lost \cup {proc[p].invoiceNumber} ELSE lost

----------------------------------------------------------------------------
(* Number range allocator: InvoiceNumberService *)

startNumber == 10000001
endNumber == 10000500

\* The row downloadNewNumberRange inserts for yearMonth, with the next id.
NewRange(yearMonth, id) ==
    [id |-> id, yearMonth |-> yearMonth,
     prefix |-> substring(yearMonth, 2, Len(yearMonth)),
     startNumber |-> startNumber, endNumber |-> endNumber,
     currentNumber |-> startNumber, isActive |-> TRUE]

ActiveRanges(yearMonth) ==
    {r \in invoiceNumbers : r.yearMonth = yearMonth /\ r.isActive}

\* Variant: the number after the cursor is handed out.
FormatInvoiceNumber_next(range) ==
    range.prefix \o padStart(toString(range.currentNumber + 1), 8, "0")

FormatInvoiceNumber(range) ==
    range.prefix \o padStart(toString(range.currentNumber), 8, "0")

\* InvoiceService.createInvoice, up to the first statement on the store:
\* the transaction begins and getAvailableInvoiceNumber evaluates the
\* period gate on the clock.
createInvoice(p, yearMonths, userIds, amounts, itemCounts, maxCalls) ==
    /\ MayStart(p, maxCalls)
    /\ \E ym \in yearMonths, u \in userIds, a \in amounts, n \in itemCounts :
         proc' = Started(p, "createInvoice", PeriodGate(ym, today), "gate",
                         "range_select",
                         [IdleProc EXCEPT !.userId = u, !.yearMonth = ym,
                                          !.amount = a, !.nItems = n])
    /\ calls' = calls + 1
    /\ UNCHANGED <<today, users, sessions, dbVars, lost, allocCount>>

\* getOrCreateNumberRange: the select of the period's active range.  With
\* several matching rows the store returns them in no fixed order.
getOrCreateNumberRange(p) ==
    /\ proc[p].pc = "range_select"
    /\ LET existing == ActiveRanges(proc[p].yearMonth)
       IN  IF existing = {}
           THEN proc' = [proc EXCEPT ![p].pc = "range_insert"]
           ELSE \E existingRange \in existing :
                  proc' = [proc EXCEPT ![p].pc = "alloc_select",
                                       ![p].range = Some(existingRange)]
    /\ UNCHANGED <<today, users, sessions, dbVars, histVars>>

\* downloadNewNumberRange: the insert, on `db`.
downloadNewNumberRange(p) ==
    /\ proc[p].pc = "range_insert"
    /\ LET range == NewRange(proc[p].yearMonth, rangeIdSeq + 1)
       IN  /\ invoiceNumbers' = invoiceNumbers \cup {range}
           /\ rangeIdSeq' = rangeIdSeq + 1
           /\ allocCount' = Append(allocCount, 0)
           /\ proc' = [proc EXCEPT ![p].pc = "alloc_select",
                                   ![p].range = Some(range),
                                   ![p].downloaded = TRUE]
    /\ UNCHANGED <<today, users, sessions, invoiceIdSeq, ledgerVars, calls, lost>>

\* Variant: the range counts as used up while its last number is free.
RangeExhausted_inclusive(range) == range.currentNumber >= range.endNumber

\* allocateNextNumber, the check of the row it read
RangeExhausted(range) == range.currentNumber > range.endNumber

\* allocateNextNumber: the select by id, the checks and the number.
allocateNextNumber_select(p) ==
    /\ proc[p].pc = "alloc_select"
    /\ LET rows == {r \in invoiceNumbers : r.id = proc[p].range[1].id}
       IN  IF rows = {}
           THEN Throw(p, "range_missing")
           ELSE LET range == CHOOSE r \in rows : TRUE
                IN  IF RangeExhausted(range)
                    THEN Throw(p, "exhausted")
                    ELSE /\ proc' = [proc EXCEPT
                                ![p].pc = "alloc_update",
                                ![p].range = Some(range),
                                ![p].invoiceNumber = FormatInvoiceNumber(range)]
                         /\ UNCHANGED <<ledgerVars, lost>>
    /\ UNCHANGED <<today, users, sessions, invoiceNumbers, rangeIdSeq, invoiceIdSeq, calls,
                   allocCount>>

\* Variant: the update leaves the cursor where it was read.
NextCursor_same(range) == range.currentNumber

\* The cursor allocateNextNumber writes, from the row it read.
NextCursor(range) == range.currentNumber + 1

\* allocateNextNumber: the update of the cursor, on `db`, and the return.
allocateNextNumber_update(p) ==
    /\ proc[p].pc = "alloc_update"
    /\ LET range == proc[p].range[1]
       IN  /\ invoiceNumbers' =
                {IF r.id = range.id
                 THEN [r EXCEPT !.currentNumber = NextCursor(range)]
                 ELSE r : r \in invoiceNumbers}
           /\ allocCount' = [allocCount EXCEPT ![range.id] = @ + 1]
    /\ proc' = [proc EXCEPT ![p].pc = "inv_insert"]
    /\ UNCHANGED <<today, users, sessions, rangeIdSeq, ledgerVars, invoiceIdSeq, calls, lost>>

----------------------------------------------------------------------------
(* Invoice ledger: InvoiceService *)

\* Variant: the column without its unique constraint.
UniqueViolation_off(invoiceNumber) == FALSE

\* invoices.invoiceNumber is unique: an insert of a number a committed row
\* carries is refused.
UniqueViolation(invoiceNumber) ==
    \E i \in invoices : i.invoiceNumber = invoiceNumber

\* A row another open transaction has written and not yet committed is
\* locked: a statement that conflicts with it waits for that transaction.
InsertWaits(p, invoiceNumber) ==
    \E q \in Others(p) :
        /\ proc[q].tx.inv # None
        /\ proc[q].tx.inv[1].invoiceNumber = invoiceNumber

InvoiceRowLocked(p, id) ==
    \E q \in Others(p) :
        proc[q].tx.invUpd # None /\ proc[q].tx.invUpd[1].id = id

StatRowLocked(p, id) ==
    \E q \in Others(p) :
        /\ proc[q].tx.stat # None
        /\ proc[q].tx.stat[1].kind = "update"
        /\ proc[q].tx.stat[1].id = id

\* createInvoice: tx.insert(invoices), status "issued".
insertInvoice(p) ==
    /\ proc[p].pc = "inv_insert"
    /\ ~InsertWaits(p, proc[p].invoiceNumber)
    /\ invoiceIdSeq' = invoiceIdSeq + 1
    /\ IF UniqueViolation(proc[p].invoiceNumber)
       THEN Throw(p, "unique")
       ELSE LET invoice ==
                  [id |-> invoiceIdSeq + 1,
                   invoiceNumber |-> proc[p].invoiceNumber,
                   yearMonth |-> proc[p].yearMonth,
                   grandTotal |-> proc[p].amount,
                   status |-> "issued",
                   userId |-> proc[p].userId,
                   issuedAt |-> today,
                   uploadedAt |-> None]
            IN  /\ proc' = [proc EXCEPT
                       ![p].pc = IF proc[p].nItems > 0 THEN "item_insert"
                                 ELSE "stat_select",
                       ![p].invoice = Some(invoice),
                       ![p].tx.inv = Some(invoice)]
                /\ UNCHANGED <<ledgerVars, lost>>
    /\ UNCHANGED <<today, users, sessions, invoiceNumbers, rangeIdSeq, calls, allocCount>>

\* createInvoice: one tx.insert(invoiceItems) of the loop.
insertItem(p) ==
    /\ proc[p].pc = "item_insert"
    /\ LET item == [invoiceId |-> proc[p].invoice[1].id,
                    n |-> proc[p].itemsDone + 1]
       IN  proc' = [proc EXCEPT
                      ![p].tx.items = @ \cup {item},
                      ![p].itemsDone = @ + 1,
                      ![p].pc = IF proc[p].itemsDone + 1 = proc[p].nItems
                                THEN "stat_select" ELSE "item_insert"]
    /\ UNCHANGED <<today, users, sessions, dbVars, histVars>>

\* What the caller passes to updateAnnualStats: createInvoice its own user,
\* +grandTotal and the requested period; voidInvoice its own user,
\* -grandTotal and the period of the invoice it read.
StatsUserId(p) == proc[p].userId

\* Variant: voidInvoice passes the amount with the sign of an issue.
StatsAmount_unsigned(p) == proc[p].invoice[1].grandTotal

StatsAmount(p) ==
    IF proc[p].op = "createInvoice" THEN proc[p].invoice[1].grandTotal
    ELSE 0 - proc[p].invoice[1].grandTotal

StatsYear(p) ==
    LET yearMonth == IF proc[p].op = "createInvoice" THEN proc[p].yearMonth
                     ELSE proc[p].invoice[1].yearMonth
    IN  parseInt(substring(yearMonth, 0, 4))

\* updateAnnualStats: the select of the (user, year) row, on tx.
updateAnnualStats_select(p) ==
    /\ proc[p].pc = "stat_select"
    /\ LET ids == {k \in 1..Len(annualStats) :
                     /\ annualStats[k].userId = StatsUserId(p)
                     /\ annualStats[k].year = StatsYear(p)}
       IN  IF ids = {}
           THEN proc' = [proc EXCEPT ![p].pc = "stat_write",
                                     ![p].existingStats = None]
           ELSE \E k \in ids :
                  proc' = [proc EXCEPT
                             ![p].pc = "stat_write",
                             ![p].existingStats =
                                 Some([id |-> k, row |-> annualStats[k]])]
    /\ UNCHANGED <<today, users, sessions, dbVars, histVars>>

\* The statement updateAnnualStats issues on tx for `amount`.
StatsWrite(existingStats, userId, year, amount) ==
    IF existingStats # None
    THEN [kind |-> "update", id |-> existingStats[1].id,
          row |-> [existingStats[1].row EXCEPT
                     !.totalRevenue = @ + amount,
                     !.totalInvoices = @ + (IF amount > 0 THEN 1 ELSE -1)]]
    ELSE [kind |-> "insert", id |-> 0,
          row |-> [userId |-> userId, year |-> year, totalRevenue |-> amount,
                   totalInvoices |-> IF amount > 0 THEN 1 ELSE 0]]

\* updateAnnualStats: the update or the insert, on tx.
updateAnnualStats_write(p) ==
    /\ proc[p].pc = "stat_write"
    /\ proc[p].existingStats # None
         => ~StatRowLocked(p, proc[p].existingStats[1].id)
    /\ proc' = [proc EXCEPT
                  ![p].pc = "audit_insert",
                  ![p].tx.stat = Some(StatsWrite(proc[p].existingStats,
                                   StatsUserId(p), StatsYear(p), StatsAmount(p)))]
    /\ UNCHANGED <<today, users, sessions, dbVars, histVars>>

\* createInvoice and voidInvoice: tx.insert(auditLogs).
insertAudit(p) ==
    /\ proc[p].pc = "audit_insert"
    /\ LET entry == [userId |-> proc[p].userId,
                     action |-> IF proc[p].op = "createInvoice"
                                THEN "CREATE_INVOICE" ELSE "VOID_INVOICE",
                     resourceId |-> toString(proc[p].invoice[1].id)]
       IN  proc' = [proc EXCEPT ![p].pc = "commit",
                                ![p].tx.audit = Some(entry)]
    /\ UNCHANGED <<today, users, sessions, dbVars, histVars>>

\* db.transaction: the callback returned, COMMIT.
commit(p) ==
    /\ proc[p].pc = "commit"
    /\ applyTx(p)
    /\ Finish(p, "ok")
    /\ UNCHANGED <<today, users, sessions, invoiceNumbers, rangeIdSeq, invoiceIdSeq, histVars>>

\* A statement of the open transaction is refused by the store (a
\* constraint of the row, a lost connection): the callback throws.
TxFaultPoints == {"inv_insert", "item_insert", "stat_write", "audit_insert",
                  "void_update"}

TxFault(p) ==
    /\ proc[p].pc \in TxFaultPoints
    /\ Throw(p, "fault")
    /\ UNCHANGED <<today, users, sessions, invoiceNumbers, rangeIdSeq, invoiceIdSeq, calls,
                   allocCount>>

\* `const [row] = await ...select()`: the first row, or undefined
First(rows) == IF rows = {} THEN None ELSE Some(CHOOSE r \in rows : TRUE)

InvoiceById(id) == {i \in invoices : i.id = id}

InvoiceByNumber(invoiceNumber) ==
    {i \in invoices : i.invoiceNumber = invoiceNumber}

\* Variant: without the check of the status.
VoidCheck_noStatus(rows) == IF rows = {} THEN "not_found" ELSE "ok"

\* voidInvoice and voidInvoiceNumber, the checks of the rows they read:
\* "ok", or the error thrown.
VoidCheck(rows) ==
    IF rows = {} THEN "not_found"
    ELSE IF (CHOOSE i \in rows : TRUE).status = "voided" THEN "already_voided"
         ELSE "ok"

\* InvoiceService.voidInvoice: the select by id and the checks, on `db`.
voidInvoice(p, ids, userIds, maxCalls) ==
    /\ MayStart(p, maxCalls)
    /\ \E id \in ids, u \in userIds :
         LET rows == InvoiceById(id)
         IN  proc' = Started(p, "voidInvoice", VoidCheck(rows), "void_select",
                             "void_update",
                             [IdleProc EXCEPT !.userId = u, !.target = id,
                                              !.invoice = First(rows)])
    /\ calls' = calls + 1
    /\ UNCHANGED <<today, users, sessions, dbVars, lost, allocCount>>


\* voidInvoice: the transaction begins, tx.update(invoices) to "voided".
voidInvoice_update(p) ==
    /\ proc[p].pc = "void_update"
    /\ ~InvoiceRowLocked(p, proc[p].target)
    /\ proc' = [proc EXCEPT
                  ![p].pc = "stat_select",
                  ![p].tx.invUpd = Some([id |-> proc[p].target,
                                         status |-> "voided"])]
    /\ UNCHANGED <<today, users, sessions, dbVars, histVars>>

\* Variant: every invoice but an issued one may be updated.
UpdateAllowed_notIssued(invoice) == invoice.status # "issued"

\* updateInvoice, the check of the row it read.
UpdateAllowed(invoice) == invoice.status = "draft"

UpdateCheck(rows) ==
    IF rows = {} THEN "not_found"
    ELSE IF ~UpdateAllowed(CHOOSE i \in rows : TRUE) THEN "not_draft"
         ELSE "ok"

\* The status column after set({...updateData}): "" when updateData names
\* no status.
UpdatedStatus(invoice, data) == IF data = "" THEN invoice.status ELSE data

\* InvoiceService.updateInvoice, all on `db`: the select and the checks,
\* then the update, then the audit insert.  No statement of the program
\* writes a "draft" invoice, so the last two are written as branches of the
\* one action: on their own they would never be taken.
updateInvoice(p, ids, userIds, updateData, maxCalls) ==
    /\ IF proc[p].pc = "upd_write"
       THEN /\ ~InvoiceRowLocked(p, proc[p].target)
            /\ invoices' = {IF i.id = proc[p].target
                            THEN [i EXCEPT !.status =
                                     UpdatedStatus(i, proc[p].data)]
                            ELSE i : i \in invoices}
            /\ proc' = [proc EXCEPT ![p].pc = "upd_audit"]
            /\ UNCHANGED <<auditLogs, calls>>
       ELSE IF proc[p].pc = "upd_audit"
       THEN /\ auditLogs' = Append(auditLogs,
                   [userId |-> proc[p].userId, action |-> "UPDATE_INVOICE",
                    resourceId |-> toString(proc[p].target)])
            /\ Finish(p, "ok")
            /\ UNCHANGED <<invoices, calls>>
       ELSE /\ MayStart(p, maxCalls)
            /\ \E id \in ids, u \in userIds, data \in updateData :
                 proc' = Started(p, "updateInvoice",
                                 UpdateCheck(InvoiceById(id)), "upd_select",
                                 "upd_write",
                                 [IdleProc EXCEPT !.userId = u, !.target = id,
                                                  !.data = data])
            /\ calls' = calls + 1
            /\ UNCHANGED <<invoices, auditLogs>>
    /\ UNCHANGED <<today, users, sessions, invoiceNumbers, rangeIdSeq, invoiceIdSeq,
                   invoiceItems, annualStats, lost, allocCount>>

\* InvoiceNumberService.voidInvoiceNumber: the select by number and the
\* checks, on `db`.
voidInvoiceNumber(p, invoiceNumbersAsked, userIds, maxCalls) ==
    /\ MayStart(p, maxCalls)
    /\ \E n \in invoiceNumbersAsked, u \in userIds :
         proc' = Started(p, "voidInvoiceNumber", VoidCheck(InvoiceByNumber(n)),
                         "vn_select", "vn_update",
                         [IdleProc EXCEPT !.userId = u, !.targetNumber = n])
    /\ calls' = calls + 1
    /\ UNCHANGED <<today, users, sessions, dbVars, lost, allocCount>>

\* voidInvoiceNumber: the update to "voided", on `db`.
voidInvoiceNumber_update(p) ==
    /\ proc[p].pc = "vn_update"
    /\ \A i \in InvoiceByNumber(proc[p].targetNumber) :
         ~InvoiceRowLocked(p, i.id)
    /\ invoices' = {IF i.invoiceNumber = proc[p].targetNumber
                    THEN [i EXCEPT !.status = "voided"]
                    ELSE i : i \in invoices}
    /\ Finish(p, "ok")
    /\ UNCHANGED <<today, users, sessions, invoiceNumbers, rangeIdSeq, invoiceIdSeq,
                   invoiceItems, annualStats, auditLogs, histVars>>

----------------------------------------------------------------------------
(* Batch upload: InvoiceService.batchUploadInvoices *)

\* Variant: a NULL value is compared with IS NULL.
eq_isNull(column, value) ==
    IF value = None THEN column = None ELSE column # None /\ column = value

\* eq(column, value) on a nullable column, `column = value` in SQL: true
\* only when neither side is NULL (None) and the values are equal.
eq(column, value) == column # None /\ value # None /\ column = value

\* The rows the select of batchUploadInvoices returns.
invoicesToUpload(yearMonth) ==
    {i \in invoices :
        /\ i.yearMonth = yearMonth
        /\ i.status = "issued"
        /\ eq(i.uploadedAt, None)}

\* InvoiceService.batchUploadInvoices, all on `db`: the select, and one
\* turn of the loop per selected invoice (the upload, which does not fail,
\* and the update of uploadedAt, which the store may refuse: the error is
\* caught and counted).  The turns are written as a branch of the one
\* action: the select returns no row, so on their own they would never be
\* taken.
batchUploadInvoices(p, yearMonths, userIds, maxCalls) ==
    /\ IF proc[p].pc = "batch_loop"
       THEN /\ \E invoice \in proc[p].queue, uploaded \in BOOLEAN :
                 /\ ~InvoiceRowLocked(p, invoice.id)
                 /\ invoices' =
                      IF uploaded
                      THEN {IF i.id = invoice.id
                            THEN [i EXCEPT !.uploadedAt = Some(today)]
                            ELSE i : i \in invoices}
                      ELSE invoices
                 /\ proc' = [proc EXCEPT
                      ![p].queue = @ \ {invoice},
                      ![p].successCount = IF uploaded THEN @ + 1 ELSE @,
                      ![p].failedCount = IF uploaded THEN @ ELSE @ + 1,
                      ![p].pc = IF proc[p].queue = {invoice}
                                THEN "batch_audit" ELSE "batch_loop"]
            /\ UNCHANGED calls
       ELSE /\ MayStart(p, maxCalls)
            /\ \E ym \in yearMonths, u \in userIds :
                 LET selected == invoicesToUpload(ym)
                 IN  proc' = Started(p, "batchUploadInvoices", "ok",
                                     "batch_select",
                                     IF selected = {} THEN "batch_audit"
                                     ELSE "batch_loop",
                                     [IdleProc EXCEPT !.userId = u,
                                                      !.yearMonth = ym,
                                                      !.nItems =
                                                        Cardinality(selected),
                                                      !.queue = selected])
            /\ calls' = calls + 1
            /\ UNCHANGED invoices
    /\ UNCHANGED <<today, users, sessions, invoiceNumbers, rangeIdSeq, invoiceIdSeq,
                   invoiceItems, annualStats, auditLogs, lost, allocCount>>

\* batchUploadInvoices: the audit insert and the return of the counts,
\* which stay beside the outcome.
batchUploadInvoices_audit(p) ==
    /\ proc[p].pc = "batch_audit"
    /\ auditLogs' = Append(auditLogs,
                           [userId |-> proc[p].userId,
                            action |-> "BATCH_UPLOAD",
                            resourceId |-> None,
                            details |-> [yearMonth |-> proc[p].yearMonth,
                                         success |-> proc[p].successCount,
                                         failed |-> proc[p].failedCount]])
    /\ proc' = [proc EXCEPT ![p] =
                  [IdleProc EXCEPT
                     !.yearMonth = proc[p].yearMonth,
                     !.nItems = proc[p].nItems,
                     !.successCount = proc[p].successCount,
                     !.failedCount = proc[p].failedCount,
                     !.last = Outcome("batchUploadInvoices", "ok",
                                      "batch_audit")]]
    /\ UNCHANGED <<today, users, sessions, invoiceNumbers, rangeIdSeq, invoices,
                   invoiceIdSeq, invoiceItems, annualStats, histVars>>

----------------------------------------------------------------------------
(* Annual statistics query: InvoiceNumberService.getAnnualStats *)

\* `new Date(year, monthIndex, day)` with month = monthIndex + 1: the day at
\* 00:00 local time.
Date(year, month, day) ==
    [year |-> year, month |-> month, day |-> day, hours |-> 0]

\* Order of two moments of the clock (months of 31 days at most)
TimeKey(t) == ((t.year * 12 + t.month) * 31 + t.day) * 24 + t.hours

gte(a, b) == TimeKey(a) >= TimeKey(b)

lte(a, b) == TimeKey(a) <= TimeKey(b)

RECURSIVE sum(_, _)
\* SQL sum of a column over rows; NULL (None) over no rows
sum(rows, column) ==
    IF rows = {} THEN None
    ELSE LET r == CHOOSE x \in rows : TRUE
             rest == sum(rows \ {r}, column)
         IN  Some(r[column] + (IF rest = None THEN 0 ELSE rest[1]))

warningThreshold == 4800000

\* The upper end of the window: new Date(year, 11, 31)
WindowEnd(year) == Date(year, 12, 31)

\* The rows the query of getAnnualStats reads; userId None is no userId.
StatsRows(year, userId) ==
    {i \in invoices :
        /\ gte(i.issuedAt, Date(year, 1, 1))
        /\ lte(i.issuedAt, WindowEnd(year))
        /\ i.status = "issued"
        /\ userId # None => i.userId = userId[1]}

\* What getAnnualStats returns.  The threshold warningThreshold * 0.9 is
\* 4320000 exactly in double precision, so the comparison is made on the
\* tenfold.
AnnualStatsOf(year, userId) ==
    LET rows == StatsRows(year, userId)
        revenue == sum(rows, "grandTotal")
        ids == sum(rows, "id")
        totalRevenue == IF revenue = None THEN 0 ELSE revenue[1]
        totalInvoices == IF ids = None THEN 0 ELSE ids[1]
    IN  [year |-> year, totalRevenue |-> totalRevenue,
         totalInvoices |-> totalInvoices,
         isNearLimit |-> totalRevenue * 10 > warningThreshold * 9,
         warningThreshold |-> warningThreshold]

\* InvoiceNumberService.getAnnualStats: one select on `db`.  The year and
\* the user asked for stay beside the result.
getAnnualStats(p, years, userIds, maxCalls) ==
    /\ MayStart(p, maxCalls)
    /\ \E year \in years, u \in userIds :
         proc' = [proc EXCEPT ![p] =
                    [IdleProc EXCEPT
                       !.target = year, !.user = u,
                       !.stats = Some(AnnualStatsOf(year, u)),
                       !.last = Outcome("getAnnualStats", "ok", "stats_select")]]
    /\ calls' = calls + 1
    /\ UNCHANGED <<today, users, sessions, dbVars, lost, allocCount>>

\* The clock moves on to a later one of `moments`.
advanceClock(moments) ==
    /\ \E later \in moments :
         /\ TimeKey(later) > TimeKey(today)
         /\ today' = later
    /\ UNCHANGED <<users, sessions, dbVars, proc, histVars>>

----------------------------------------------------------------------------
(* Accounts and permissions: AuthService *)

\* Variant: operators may also upload.
operatorPermissions_upload ==
    {"CREATE_INVOICE", "READ_INVOICE", "UPDATE_INVOICE", "VOID_INVOICE",
     "EXPORT_DATA", "UPLOAD_INVOICE"}

operatorPermissions ==
    {"CREATE_INVOICE", "READ_INVOICE", "UPDATE_INVOICE", "VOID_INVOICE",
     "EXPORT_DATA"}

\* `const [user] = await db.select().from(users).where(eq(users.id, userId))`
UserById(userId) ==
    IF userId \in DOMAIN users THEN Some(users[userId]) ELSE None

\* AuthService.checkPermission, from the row its select returns
checkPermission(userId, action) ==
    LET user == UserById(userId)
    IN  IF user = None THEN FALSE
        ELSE IF ~user[1].isActive THEN FALSE
        ELSE IF user[1].role = "admin" THEN TRUE
        ELSE IF user[1].role = "operator" THEN action \in operatorPermissions
        ELSE FALSE

\* requirePermission: the middleware asks checkPermission for the session's
\* user and the action of the route, and answers 403 or goes on.  The ids
\* and the action asked stay beside the outcome.
requirePermission(p, userIds, actions, maxCalls) ==
    /\ MayStart(p, maxCalls)
    /\ \E u \in userIds, a \in actions :
         proc' = [proc EXCEPT ![p] =
                    [IdleProc EXCEPT
                       !.userId = u, !.data = a,
                       !.last = Outcome("checkPermission",
                                        IF checkPermission(u, a) THEN "true"
                                        ELSE "false", "perm_select")]]
    /\ calls' = calls + 1
    /\ UNCHANGED <<today, users, sessions, dbVars, lost, allocCount>>

\* "ok", or the error toggleUserStatus and adminResetPassword throw when
\* checkPermission refuses.
AdminCheck(adminUserId, action) ==
    IF checkPermission(adminUserId, action) THEN "ok" ELSE "forbidden"

\* AuthService.toggleUserStatus: the permission check.
toggleUserStatus(p, adminUserIds, targetUserIds, maxCalls) ==
    /\ MayStart(p, maxCalls)
    /\ \E a \in adminUserIds, t \in targetUserIds :
         proc' = Started(p, "toggleUserStatus",
                         AdminCheck(a, "ADMIN_TOGGLE_USER"), "perm_select",
                         "toggle_select",
                         [IdleProc EXCEPT !.userId = a, !.data = t])
    /\ calls' = calls + 1
    /\ UNCHANGED <<today, users, sessions, dbVars, lost, allocCount>>

\* toggleUserStatus: the select of the target.
toggleUserStatus_select(p) ==
    /\ proc[p].pc = "toggle_select"
    /\ LET user == UserById(proc[p].data)
       IN  IF user = None THEN Finish(p, "not_found")
           ELSE proc' = [proc EXCEPT ![p].pc = "toggle_update",
                                     ![p].user = user]
    /\ UNCHANGED <<today, users, sessions, dbVars, histVars>>

\* toggleUserStatus: the update, with the negation of the flag it read.
toggleUserStatus_update(p) ==
    /\ proc[p].pc = "toggle_update"
    /\ users' = [u \in DOMAIN users |->
                   IF u = proc[p].data
                   THEN [users[u] EXCEPT !.isActive = ~proc[p].user[1].isActive]
                   ELSE users[u]]
    /\ proc' = [proc EXCEPT ![p].pc = "log_insert"]
    /\ UNCHANGED <<today, sessions, dbVars, histVars>>

\* bcrypt.hash(newPassword, 12)
Hash(password) == <<"bcrypt", password>>

\* AuthService.adminResetPassword: the permission check (and the hash that
\* updatePassword computes before it touches the store).
adminResetPassword(p, adminUserIds, targetUserIds, newPasswords, maxCalls) ==
    /\ MayStart(p, maxCalls)
    /\ \E a \in adminUserIds, t \in targetUserIds, pw \in newPasswords :
         proc' = Started(p, "updatePassword",
                         AdminCheck(a, "ADMIN_RESET_PASSWORD"), "perm_select",
                         "pwd_update",
                         [IdleProc EXCEPT !.userId = a, !.data = t,
                                          !.hashedPassword = Hash(pw)])
    /\ calls' = calls + 1
    /\ UNCHANGED <<today, users, sessions, dbVars, lost, allocCount>>

\* updatePassword: the update by id; it matches no row when the target does
\* not exist.
updatePassword(p) ==
    /\ proc[p].pc = "pwd_update"
    /\ users' = [u \in DOMAIN users |->
                   IF u = proc[p].data
                   THEN [users[u] EXCEPT !.password = proc[p].hashedPassword]
                   ELSE users[u]]
    /\ proc' = [proc EXCEPT ![p].pc = "log_insert"]
    /\ UNCHANGED <<today, sessions, dbVars, histVars>>

\* The action logActivity is called with.
LoggedAction(p) ==
    IF proc[p].op = "updatePassword" THEN "UPDATE_PASSWORD"
    ELSE IF proc[p].user[1].isActive THEN "DISABLE_USER" ELSE "ENABLE_USER"

\* AuthService.logActivity: the insert into audit_logs, and the return of
\* the method that called it.
logActivity(p) ==
    /\ proc[p].pc = "log_insert"
    /\ auditLogs' = Append(auditLogs,
                           [userId |-> proc[p].userId,
                            action |-> LoggedAction(p),
                            resourceId |-> proc[p].data])
    /\ Finish(p, "ok")
    /\ UNCHANGED <<today, users, sessions, invoiceNumbers, rangeIdSeq, invoices,
                   invoiceIdSeq, invoiceItems, annualStats, histVars>>

\* A statement issued on `db` outside a transaction is refused by the store:
\* the method throws, and what its earlier statements wrote stays.
DbFaultPoints == {"toggle_update", "pwd_update", "log_insert", "batch_audit"}

DbFault(p) ==
    /\ proc[p].pc \in DbFaultPoints
    /\ Finish(p, "fault")
    /\ UNCHANGED <<today, users, sessions, dbVars, histVars>>

----------------------------------------------------------------------------
(* Specifications *)

\* The accounts the store holds when requests arrive: the administrator and
\* the operators, all active.
InitialUsers ==
    [u \in Users \cup {"a1"} |->
        [role |-> IF u = "a1" THEN "admin" ELSE "operator", isActive |-> TRUE,
         password |-> Hash("initial")]]

\* The session store before the first login
SessionKeys == {"s1", "s2"}

NoSessions == [s \in SessionKeys |-> None]

\* The store before its first request, on the day `now`.
InitEmpty(now) ==
    /\ today = now
    /\ users = InitialUsers
    /\ sessions = NoSessions
    /\ invoiceNumbers = {}
    /\ rangeIdSeq = 0
    /\ invoices = {}
    /\ invoiceIdSeq = 0
    /\ invoiceItems = {}
    /\ annualStats = <<>>
    /\ auditLogs = <<>>
    /\ proc = [p \in Procs |-> IdleProc]
    /\ calls = 0
    /\ lost = {}
    /\ allocCount = <<>>

\* The steps a handler in flight takes after its first (but for the line
\* items of createInvoice).
Continue(p) ==
    \/ getOrCreateNumberRange(p)
    \/ downloadNewNumberRange(p)
    \/ allocateNextNumber_select(p)
    \/ allocateNextNumber_update(p)
    \/ insertInvoice(p)
    \/ updateAnnualStats_select(p)
    \/ updateAnnualStats_write(p)
    \/ insertAudit(p)
    \/ commit(p)
    \/ TxFault(p)

Amounts == 1..MaxAmount
ItemCounts == 0..MaxItems

\* A day on which the current and the next period are both open and lie in
\* different years.
LedgerDay == Date(BaseYear, 12, 20)

CurrentPeriod == getCurrentYearMonth(LedgerDay)

KnownIds == {i.id : i \in invoices} \cup {invoiceIdSeq + 1}

KnownNumbers == {i.invoiceNumber : i \in invoices} \cup {CurrentPeriod}

\* Ledger specification: two handlers in flight and every operation on
\* invoices; u1 issues, u1 and u2 void and update.
Init == InitEmpty(LedgerDay)

Next ==
    \E p \in Procs :
        \/ createInvoice(p, {CurrentPeriod}, {"u1"}, Amounts, {0}, MaxCalls)
        \/ voidInvoice(p, KnownIds, Users, MaxCalls)
        \/ voidInvoice_update(p)
        \/ updateInvoice(p, KnownIds, Users, {"", "issued"}, MaxCalls)
        \/ voidInvoiceNumber(p, KnownNumbers, Users, MaxCalls)
        \/ voidInvoiceNumber_update(p)
        \/ Continue(p)

Spec == Init /\ [][Next]_vars

\* Creation specification: two createInvoice handlers in flight, with line
\* items, for the current period.
NextCreate ==
    \E p \in Procs :
        \/ createInvoice(p, {CurrentPeriod}, {"u1"}, Amounts, ItemCounts,
                         MaxCreates)
        \/ insertItem(p)
        \/ Continue(p)

SpecCreate == Init /\ [][NextCreate]_vars

\* Race specification: a longer run of createInvoice handlers on the one
\* range of the current period.
NextRace ==
    \E p \in Procs :
        \/ createInvoice(p, {CurrentPeriod}, {"u1"}, {1}, {0}, MaxRaceCalls)
        \/ Continue(p)

SpecRace == Init /\ [][NextRace]_vars

\* Exhaustion specification: the store after the earlier requests of the
\* current period used up all but the last slots of its range, one after
\* the other.  The invoices of those requests are left out: their numbers
\* lie below the cursor, and no statement below reads them.
UsedRange(yearMonth, used) ==
    [NewRange(yearMonth, 1) EXCEPT !.currentNumber = startNumber + used]

RangeSize == endNumber - startNumber + 1

InitExhaust ==
    \E used \in (RangeSize - Headroom)..RangeSize :
        /\ today = LedgerDay
        /\ users = InitialUsers
        /\ sessions = NoSessions
        /\ invoiceNumbers = {UsedRange(CurrentPeriod, used)}
        /\ rangeIdSeq = 1
        /\ invoices = {}
        /\ invoiceIdSeq = used
        /\ invoiceItems = {}
        /\ annualStats = <<>>
        /\ auditLogs = <<>>
        /\ proc = [p \in Procs |-> IdleProc]
        /\ calls = 0
        /\ lost = {}
        /\ allocCount = <<used>>

\* Its requests are for the current period, whose range is nearly used up,
\* and for the next period, which is open on LedgerDay and has no range yet.
NextExhaust ==
    \E p \in Procs :
        \/ createInvoice(p, {CurrentPeriod, getNextYearMonth(LedgerDay)},
                         {"u1"}, {1}, {0}, MaxCreates)
        \/ Continue(p)

SpecExhaust == InitExhaust /\ [][NextExhaust]_vars

\* Period-gate specification: one createInvoice, for any period label of
\* the year before, the year and the year after (and one malformed label),
\* on any day of the year.
IsLeap(year) == (year % 4 = 0 /\ year % 100 # 0) \/ year % 400 = 0

DaysInMonth(year, month) ==
    IF month = 2 THEN (IF IsLeap(year) THEN 29 ELSE 28)
    ELSE IF month \in {4, 6, 9, 11} THEN 30 ELSE 31

Days == {Date(BaseYear, m, d) : m \in 1..12, d \in 1..31}

GatePeriods ==
    {PeriodLabel(y, k) : y \in (BaseYear - 1)..(BaseYear + 1), k \in 1..6}
      \cup {toString(BaseYear) \o <<"0", "1">>}

InitGate ==
    \E now \in {d \in Days : d.day <= DaysInMonth(d.year, d.month)} :
        InitEmpty(now)

NextGate ==
    \/ createInvoice("p1", GatePeriods, {"u1"}, Amounts, ItemCounts, MaxGateCalls)
    \/ insertItem("p1")
    \/ Continue("p1")

SpecGate == InitGate /\ [][NextGate]_vars


----------------------------------------------------------------------------
(* Properties *)

\* The steps of handler p
Acts(p) == proc'[p] # proc[p]

\* Handler p's call ends in this step by throwing
Throws(p) ==
    /\ Acts(p)
    /\ proc'[p].pc = "idle"
    /\ proc'[p].last.result # "ok"

\* The numeric part of an invoice number: its last eight characters
NumericPart(invoiceNumber) ==
    parseInt(substring(invoiceNumber, Len(invoiceNumber) - 8,
                       Len(invoiceNumber)))

\* C1 (as claimed): every number handed out has its numeric part in
\* [10000001, 10000500], and no range hands out numbers more than 500
\* times: the 501st allocation fails.
C1_AllocationBounded ==
    /\ \A p \in Procs :
         proc[p].invoiceNumber # None =>
            /\ NumericPart(proc[p].invoiceNumber) >= 10000001
            /\ NumericPart(proc[p].invoiceNumber) <= 10000500
    /\ \A id \in DOMAIN allocCount : allocCount[id] <= 500

\* C2 (as claimed): the cursor of every range stays within
\* [startNumber, endNumber + 1], and no step decreases it.
C2_CursorMonotonic ==
    [][\A r \in invoiceNumbers :
          /\ r.startNumber <= r.currentNumber
          /\ r.currentNumber <= r.endNumber + 1
          /\ \E n \in invoiceNumbers' :
                n.id = r.id /\ n.currentNumber >= r.currentNumber]_vars

\* C3: no two invoice rows carry the same invoiceNumber, and of the
\* handlers that were handed one number at most one has its row inserted:
\* none holds a staged row whose number is committed or staged elsewhere.
C3_UniqueInvoiceNumber ==
    /\ \A i, j \in invoices : i.invoiceNumber = j.invoiceNumber => i = j
    /\ \A p \in Procs :
         proc[p].tx.inv # None =>
            /\ \A i \in invoices :
                  i.invoiceNumber # proc[p].tx.inv[1].invoiceNumber
            /\ \A q \in Others(p) :
                  proc[q].tx.inv # None =>
                     proc[q].tx.inv[1].invoiceNumber
                        # proc[p].tx.inv[1].invoiceNumber

\* C3, witness: a handler was refused the insert of a number that the
\* other handler, handed the same number, has committed.
C3_Witness ==
    \E p \in Procs :
        /\ proc[p].last = Outcome("createInvoice", "unique", "inv_insert")
        /\ invoices # {}

\* C4 (as claimed): at most one active range per period label.
C4_OneActiveRange ==
    \A r, n \in invoiceNumbers :
        (r.isActive /\ n.isActive /\ r.yearMonth = n.yearMonth) => r.id = n.id

\* C5: a step of createInvoice changes the invoice, item, AnnualStat or
\* audit table only if it is the COMMIT that ends the call with success;
\* so a call that throws has left none of them changed.
C5_CreateAllOrNothing ==
    [][\A p \in Procs :
          (proc[p].op = "createInvoice" /\ Acts(p)
              /\ ledgerVars' # ledgerVars)
             => (proc[p].pc = "commit" /\ proc'[p].last.result = "ok")]_vars

\* C5, witness: a createInvoice failed at its audit insert, with the
\* invoice and the AnnualStat write staged.
C5_Witness ==
    \E p \in Procs :
        proc[p].last = Outcome("createInvoice", "fault", "audit_insert")

\* C6 (as claimed): when createInvoice throws after it was handed a number
\* the ranges are left as they are, and no allocation that starts later is
\* handed a number that was lost that way.
C6_LostSlotNeverReissued ==
    [][\A p \in Procs :
          /\ (Throws(p) /\ proc[p].invoiceNumber # None)
                => UNCHANGED invoiceNumbers
          /\ (proc[p].pc = "alloc_select" /\ proc'[p].pc = "alloc_update")
                => proc'[p].invoiceNumber \notin lost]_vars

\* The AnnualStat rows of a user and the year of a period label
OwnerStats(userId, yearMonth) ==
    {k \in 1..Len(annualStats) :
        /\ annualStats[k].userId = userId
        /\ annualStats[k].year = parseInt(substring(yearMonth, 0, 4))}

\* C7 (as claimed): the COMMIT of a voidInvoice of an issued invoice takes
\* the invoice's amount off the revenue of one AnnualStat row of the
\* invoice's owner and year, and changes no other row.
C7_VoidDecrementsOwner ==
    [][\A p \in Procs :
          (proc[p].op = "voidInvoice" /\ proc[p].pc = "commit" /\ Acts(p)
              /\ proc[p].invoice[1] \in invoices)
             => /\ Len(annualStats') = Len(annualStats)
                /\ \E k \in OwnerStats(proc[p].invoice[1].userId,
                                       proc[p].invoice[1].yearMonth) :
                      /\ annualStats'[k].totalRevenue =
                            annualStats[k].totalRevenue
                               - proc[p].invoice[1].grandTotal
                      /\ \A j \in 1..Len(annualStats) :
                            j # k => annualStats'[j] = annualStats[j]]_vars

\* C8: a voidInvoice that goes on has read an invoice that exists and is
\* not voided; one that does not throws "not_found" or "already_voided"
\* at once and leaves invoices, AnnualStat and the audit log unchanged.
C8_VoidRejected ==
    [][\A p \in Procs :
          (calls' = calls + 1 /\ Acts(p) /\ proc'[p].last.op = "voidInvoice")
             => IF proc'[p].pc = "idle"
                THEN /\ proc'[p].last.result \in {"not_found", "already_voided"}
                     /\ UNCHANGED ledgerVars
                ELSE \E i \in invoices :
                        i.id = proc'[p].target /\ i.status # "voided"]_vars

\* C8, witness: a voidInvoice of a voided invoice was refused.
C8_Witness ==
    \E p \in Procs :
        proc[p].last = Outcome("voidInvoice", "already_voided", "void_select")

PeriodTable ==
    << <<"0", "1", "0", "2">>, <<"0", "3", "0", "4">>, <<"0", "5", "0", "6">>,
       <<"0", "7", "0", "8">>, <<"0", "9", "1", "0">>, <<"1", "1", "1", "2">> >>

TableCurrent(d) == toString(d.year) \o PeriodTable[(d.month + 1) \div 2]

TableNext(d) ==
    IF d.month >= 11 THEN toString(d.year + 1) \o PeriodTable[1]
    ELSE toString(d.year) \o PeriodTable[(d.month + 1) \div 2 + 1]

GateOpen(asked, d) ==
    asked = TableCurrent(d) \/ (asked = TableNext(d) /\ d.day >= 20)

\* C10: createInvoice gets past the period gate exactly when the period
\* asked for is the current period of the day, or its next period and the
\* day of the month is at least 20.
C10_PeriodGate ==
    \A p \in Procs :
        /\ (proc[p].last.op = "createInvoice" /\ proc[p].last.at = "gate")
              => ~GateOpen(proc[p].yearMonth, today)
        /\ (proc[p].op = "createInvoice" /\ proc[p].pc # "idle")
              => GateOpen(proc[p].yearMonth, today)

\* C10, witness: on the 20th a request for the next period is past the gate.
C10_Witness ==
    \E p \in Procs :
        /\ proc[p].pc = "range_select"
        /\ today.day = 20
        /\ proc[p].yearMonth = TableNext(today)

\* The label of the k-th entry of the six-period table in year y
TableLabel(y, k) == toString(y) \o PeriodTable[k]

\* C11: for the year before, the year and the year after, and every month,
\* the current period label is the year followed by the two-digit months
\* 2*ceil(m/2)-1 and 2*ceil(m/2), which is the entry of the six-period
\* table; the next period label is the following entry of the same year,
\* and for months 11 and 12 the first entry of the year after.
C11_PeriodLabels ==
    \A y \in (BaseYear - 1)..(BaseYear + 1), m \in 1..12 :
        LET d == [today EXCEPT !.year = y, !.month = m]
            k == (m + 1) \div 2
        IN  /\ getCurrentYearMonth(d)
                 = toString(y) \o padStart(toString(2 * k - 1), 2, "0")
                               \o padStart(toString(2 * k), 2, "0")
            /\ getCurrentYearMonth(d) = TableLabel(y, k)
            /\ getNextYearMonth(d)
                 = IF m \in {11, 12} THEN TableLabel(y + 1, 1)
                   ELSE TableLabel(y, k + 1)

\* C11, witness: in December a createInvoice for the first period of the
\* year after is past the gate, which compared its label with the one
\* getNextYearMonth computed.
C11_Witness ==
    \E p \in Procs :
        /\ proc[p].pc = "alloc_select"
        /\ today.month = 12
        /\ proc[p].yearMonth = TableLabel(today.year + 1, 1)

\* Accounts specification: permission checks, status toggles and password
\* resets on a users table of two accounts with any role and status; u2 is
\* the id of no account.
Roles == {"admin", "operator", "viewer"}

RouteActions ==
    {"CREATE_INVOICE", "READ_INVOICE", "UPDATE_INVOICE", "VOID_INVOICE",
     "EXPORT_DATA", "UPLOAD_INVOICE", "ADMIN_TOGGLE_USER"}

AccountIds == {"a1", "u1"}

SessionIds == AccountIds \cup {"u2"}

InitAuth ==
    \E table \in [AccountIds ->
                    [role : Roles, isActive : BOOLEAN,
                     password : {Hash("initial")}]] :
        /\ today = LedgerDay
        /\ users = table
        /\ sessions = NoSessions
        /\ invoiceNumbers = {}
        /\ rangeIdSeq = 0
        /\ invoices = {}
        /\ invoiceIdSeq = 0
        /\ invoiceItems = {}
        /\ annualStats = <<>>
        /\ auditLogs = <<>>
        /\ proc = [p \in Procs |-> IdleProc]
        /\ calls = 0
        /\ lost = {}
        /\ allocCount = <<>>

NextAuth ==
    \E p \in Procs :
        \/ requirePermission(p, SessionIds, RouteActions, MaxAuthCalls)
        \/ toggleUserStatus(p, AccountIds, {"u1", "u2"}, MaxAuthCalls)
        \/ toggleUserStatus_select(p)
        \/ toggleUserStatus_update(p)
        \/ adminResetPassword(p, {"a1"}, {"u1"}, {"secret"}, MaxAuthCalls)
        \/ updatePassword(p)
        \/ logActivity(p)
        \/ DbFault(p)

SpecAuth == InitAuth /\ [][NextAuth]_vars

\* C12: checkPermission answers true exactly when the user exists, is
\* active, and is an admin, or is an operator and the action is one of
\* CREATE_INVOICE, READ_INVOICE, UPDATE_INVOICE, VOID_INVOICE, EXPORT_DATA.
C12_CheckPermission ==
    [][\A p \in Procs :
          (calls' = calls + 1 /\ Acts(p)
              /\ proc'[p].last.op = "checkPermission")
             => LET u == proc'[p].userId
                    a == proc'[p].data
                IN  (proc'[p].last.result = "true")
                      <=> /\ u \in DOMAIN users
                          /\ users[u].isActive
                          /\ \/ users[u].role = "admin"
                             \/ /\ users[u].role = "operator"
                                /\ a \in {"CREATE_INVOICE", "READ_INVOICE",
                                          "UPDATE_INVOICE", "VOID_INVOICE",
                                          "EXPORT_DATA"}]_vars

\* C12, witness: an active operator was refused UPLOAD_INVOICE.
C12_Witness ==
    \E p \in Procs :
        /\ calls = 1
        /\ proc[p].last = Outcome("checkPermission", "false", "perm_select")
        /\ proc[p].data = "UPLOAD_INVOICE"
        /\ proc[p].userId \in DOMAIN users
        /\ users[proc[p].userId].role = "operator"
        /\ users[proc[p].userId].isActive

\* Statistics specification: one handler at a time issues, voids and asks
\* for the statistics while the clock passes the last day of the year.
StatsMoments ==
    {Date(BaseYear, 12, 31),
     [Date(BaseYear, 12, 31) EXCEPT !.hours = 12],
     Date(BaseYear + 1, 1, 1)}

StatsAmounts == {1, (warningThreshold * 9) \div 10}

InitStats == InitEmpty(Date(BaseYear, 12, 30))

NextStats ==
    \/ createInvoice("p1", {getCurrentYearMonth(today)}, Users, StatsAmounts,
                     {0}, MaxStatsCalls)
    \/ voidInvoice("p1", KnownIds, {"u1"}, MaxStatsCalls)
    \/ voidInvoice_update("p1")
    \/ getAnnualStats("p1", {BaseYear, BaseYear + 1},
                      {None} \cup {Some(u) : u \in Users}, MaxStatsCalls)
    \/ advanceClock(StatsMoments)
    \/ Continue("p1")

SpecStats == InitStats /\ [][NextStats]_vars

\* The invoices the claim counts for a year and a user: issued, of that
\* user, with an issue time within the calendar year.
ClaimedRows(year, userId) ==
    {i \in invoices :
        /\ i.status = "issued"
        /\ i.issuedAt.year = year
        /\ userId # None => i.userId = userId[1]}

\* C13 (as claimed): the totalRevenue getAnnualStats returns is the sum of
\* grandTotal over the issued invoices of the user whose issue time lies
\* from the start of 1 January to the end of 31 December of the year, and
\* isNearLimit is true exactly when it is greater than 4,320,000.
C13_AnnualStatsFromInvoices ==
    [][\A p \in Procs :
          (calls' = calls + 1 /\ Acts(p)
              /\ proc'[p].last.op = "getAnnualStats")
             => LET claimed == sum(ClaimedRows(proc'[p].target, proc'[p].user),
                                   "grandTotal")
                    total == IF claimed = None THEN 0 ELSE claimed[1]
                IN  /\ proc'[p].stats[1].totalRevenue = total
                    /\ proc'[p].stats[1].isNearLimit <=> total > 4320000]_vars

\* Upload specification: the administrator uploads the current period while
\* invoices are being issued for it.
NextUpload ==
    \E p \in Procs :
        \/ createInvoice(p, {CurrentPeriod}, {"u1"}, {1}, {0}, MaxUploadCalls)
        \/ batchUploadInvoices(p, {CurrentPeriod}, {"a1"}, MaxUploadCalls)
        \/ batchUploadInvoices_audit(p)
        \/ DbFault(p)
        \/ Continue(p)

SpecUpload == Init /\ [][NextUpload]_vars

\* C15 (as claimed): batchUploadInvoices selects the invoices of the period
\* that are issued and not yet uploaded and attempts every one of them; the
\* counts it returns add up to the number selected, and it appends one
\* BATCH_UPLOAD audit entry with those counts.
C15_BatchUploadCounts ==
    [][\A p \in Procs :
          /\ (calls' = calls + 1 /\ Acts(p)
                 /\ proc'[p].op = "batchUploadInvoices")
                => proc'[p].queue =
                     {i \in invoices :
                         /\ i.yearMonth = proc'[p].yearMonth
                         /\ i.status = "issued"
                         /\ i.uploadedAt = None}
          /\ (proc[p].pc = "batch_audit" /\ Acts(p)
                 /\ proc'[p].last.result = "ok")
                => /\ proc'[p].successCount + proc'[p].failedCount
                        = proc'[p].nItems
                   /\ Len(auditLogs') = Len(auditLogs) + 1
                   /\ auditLogs'[Len(auditLogs')].action = "BATCH_UPLOAD"
                   /\ auditLogs'[Len(auditLogs')].details.success
                        = proc'[p].successCount
                   /\ auditLogs'[Len(auditLogs')].details.failed
                        = proc'[p].failedCount]_vars

\* Audit specification: every operation that writes the audit log, by two
\* handlers.
NextAudit ==
    \E p \in Procs :
        \/ createInvoice(p, {CurrentPeriod}, {"u1"}, {1}, {0}, MaxAuditCalls)
        \/ voidInvoice(p, KnownIds, {"u1"}, MaxAuditCalls)
        \/ voidInvoice_update(p)
        \/ updateInvoice(p, KnownIds, {"u1"}, {""}, MaxAuditCalls)
        \/ batchUploadInvoices(p, {CurrentPeriod}, {"a1"}, MaxAuditCalls)
        \/ batchUploadInvoices_audit(p)
        \/ adminResetPassword(p, {"a1"}, {"u1"}, {"secret"}, MaxAuditCalls)
        \/ updatePassword(p)
        \/ toggleUserStatus(p, {"a1", "u1"}, {"u1"}, MaxAuditCalls)
        \/ toggleUserStatus_select(p)
        \/ toggleUserStatus_update(p)
        \/ logActivity(p)
        \/ DbFault(p)
        \/ Continue(p)

SpecAudit == Init /\ [][NextAudit]_vars

\* The audit actions an operation writes
AuditActions(op) ==
    IF op = "createInvoice" THEN {"CREATE_INVOICE"}
    ELSE IF op = "voidInvoice" THEN {"VOID_INVOICE"}
    ELSE IF op = "updateInvoice" THEN {"UPDATE_INVOICE"}
    ELSE IF op = "batchUploadInvoices" THEN {"BATCH_UPLOAD"}
    ELSE IF op = "updatePassword" THEN {"UPDATE_PASSWORD"}
    ELSE IF op = "toggleUserStatus" THEN {"DISABLE_USER", "ENABLE_USER"}
    ELSE {}

\* Handler p's call ends in this step with success
Returns(p) ==
    /\ Acts(p)
    /\ proc[p].pc # "idle"
    /\ proc'[p].pc = "idle"
    /\ proc'[p].last.result = "ok"

\* C14: every step keeps the audit entries there are, in their places; the
\* step in which a createInvoice, voidInvoice, updateInvoice,
\* batchUploadInvoices, updatePassword or toggleUserStatus ends with success
\* appends one entry of that operation and its acting user, and no other
\* step of a handler changes the log.
C14_AuditAppendOnly ==
    [][/\ Len(auditLogs') >= Len(auditLogs)
       /\ SubSeq(auditLogs', 1, Len(auditLogs)) = auditLogs
       /\ \A p \in Procs :
            Acts(p) =>
               IF Returns(p) /\ AuditActions(proc[p].op) # {}
               THEN /\ Len(auditLogs') = Len(auditLogs) + 1
                    /\ auditLogs'[Len(auditLogs')].action
                          \in AuditActions(proc[p].op)
                    /\ auditLogs'[Len(auditLogs')].userId = proc[p].userId
               ELSE auditLogs' = auditLogs]_vars

\* C14, witness: the log holds the entry of a createInvoice and, after it,
\* the entry of a status toggle.
C14_Witness ==
    /\ Len(auditLogs) = 2
    /\ auditLogs[1].action = "CREATE_INVOICE"
    /\ auditLogs[2].action = "DISABLE_USER"

\* C16: allocateNextNumber reads and writes the cursor in two steps on the
\* store itself.  The read changes no row and hands out the number of the
\* cursor it finds; the write stores the cursor that was read plus one,
\* whatever the row holds by then; neither stages anything in the invoice
\* transaction nor touches the ledger.
C16_AllocatorRace ==
    [][\A p \in Procs :
          /\ (proc[p].pc = "alloc_select" /\ proc'[p].pc = "alloc_update")
                => /\ invoiceNumbers' = invoiceNumbers
                   /\ \E r \in invoiceNumbers :
                         /\ r.id = proc[p].range[1].id
                         /\ proc'[p].range[1].currentNumber = r.currentNumber
                         /\ proc'[p].invoiceNumber =
                               r.prefix \o padStart(toString(r.currentNumber),
                                                    8, "0")
                   /\ proc'[p].tx = EmptyTx
                   /\ UNCHANGED ledgerVars
          /\ (proc[p].pc = "alloc_update" /\ Acts(p))
                => /\ \A r \in invoiceNumbers' :
                         r.id = proc[p].range[1].id
                            => r.currentNumber
                                 = proc[p].range[1].currentNumber + 1
                   /\ proc'[p].tx = EmptyTx
                   /\ UNCHANGED ledgerVars]_vars

\* C16, witness: both handlers read the same cursor of the same range and
\* hold the same invoice number, neither having written the cursor yet.
C16_Witness ==
    /\ proc["p1"].pc = "alloc_update"
    /\ proc["p2"].pc = "alloc_update"
    /\ proc["p1"].range[1].id = proc["p2"].range[1].id
    /\ proc["p1"].invoiceNumber = proc["p2"].invoiceNumber

\* The VOID_INVOICE audit entries of an invoice
VoidEntries(id) ==
    {k \in 1..Len(auditLogs) :
        /\ auditLogs[k].action = "VOID_INVOICE"
        /\ auditLogs[k].resourceId = toString(id)}

\* C17 (as claimed): of the voidInvoice calls on one invoice at most one
\* succeeds.  A voidInvoice that commits (its status update, its AnnualStat
\* subtraction and its audit entry together) finds no VOID_INVOICE entry of
\* an earlier commit for that invoice.
C17_VoidAtMostOnce ==
    [][\A p \in Procs :
          (proc[p].op = "voidInvoice" /\ proc[p].pc = "commit" /\ Acts(p)
              /\ proc'[p].last.result = "ok")
             => VoidEntries(proc[p].target) = {}]_vars

\* Sequential specification: one handler, so that no two calls interleave.
\* It issues for the current and the next period, for either user, and
\* voids an invoice as the user who issued it; it starts from the empty
\* store or from a nearly used up range of the current period.
OwnIds(userId) == {i.id : i \in {j \in invoices : j.userId = userId}}

InitSeq == Init \/ InitExhaust

NextSeq ==
    \/ createInvoice("p1", {CurrentPeriod, getNextYearMonth(LedgerDay)},
                     Users, Amounts, {0}, MaxSeqCalls)
    \/ \E u \in Users : voidInvoice("p1", OwnIds(u), {u}, MaxSeqCalls)
    \/ voidInvoice_update("p1")
    \/ Continue("p1")

SpecSeq == InitSeq /\ [][NextSeq]_vars

\* C18: without interleaving, the k-th allocation of a period (which has a
\* single range) hands out the last six characters of the period label
\* followed by 10000000 + k in eight digits, for k up to 500, and moves the
\* cursor on by one.
C18_ConsecutiveNumbers ==
    [][\A p \in Procs :
          (proc[p].pc = "alloc_update" /\ Acts(p))
             => LET id == proc[p].range[1].id
                    label == proc[p].yearMonth
                    k == allocCount'[id]
                IN  /\ \A r \in invoiceNumbers : r.yearMonth = label => r.id = id
                    /\ k = allocCount[id] + 1
                    /\ k \in 1..500
                    /\ proc[p].invoiceNumber =
                          SubSeq(label, Len(label) - 5, Len(label))
                             \o padStart(toString(10000000 + k), 8, "0")
                    /\ \A r \in invoiceNumbers, n \in invoiceNumbers' :
                          (r.id = id /\ n.id = id)
                             => n.currentNumber = r.currentNumber + 1]_vars

\* C18, witness: the 500th allocation of a period was made, after the 499th.
C18_Witness ==
    /\ allocCount # <<>>
    /\ allocCount[1] = 500
    /\ \E p \in Procs :
          /\ proc[p].invoiceNumber # None
          /\ NumericPart(proc[p].invoiceNumber) = 10000500

\* The issued invoices of a user whose period label begins with a year
IssuedOf(userId, year) ==
    {i \in invoices :
        /\ i.userId = userId
        /\ i.status = "issued"
        /\ parseInt(substring(i.yearMonth, 0, 4)) = year}

\* C19: without interleaving, with positive totals and every void made by
\* the user who issued, each (user, year) has at most one AnnualStat row,
\* has one as soon as it has an issued invoice, and the row's totalRevenue
\* is the sum of grandTotal over the user's issued invoices of that
\* period-year and its totalInvoices their number.
C19_StatsMatchLedger ==
    /\ \A k, j \in 1..Len(annualStats) :
          (annualStats[k].userId = annualStats[j].userId
              /\ annualStats[k].year = annualStats[j].year) => k = j
    /\ \A k \in 1..Len(annualStats) :
          LET rows == IssuedOf(annualStats[k].userId, annualStats[k].year)
              total == sum(rows, "grandTotal")
          IN  /\ annualStats[k].totalRevenue
                    = IF total = None THEN 0 ELSE total[1]
              /\ annualStats[k].totalInvoices = Cardinality(rows)
    /\ \A i \in invoices :
          i.status = "issued" =>
             \E k \in 1..Len(annualStats) :
                /\ annualStats[k].userId = i.userId
                /\ annualStats[k].year = parseInt(substring(i.yearMonth, 0, 4))

\* C19, witness: a user has issued two invoices and voided one of them.
C19_Witness ==
    \E i, j \in invoices :
        /\ i.userId = j.userId
        /\ i.yearMonth = j.yearMonth
        /\ i.status = "issued"
        /\ j.status = "voided"
        /\ proc["p1"].last = Outcome("voidInvoice", "ok", "commit")

\* C20 (as claimed): every AnnualStat row has totalInvoices >= 0 and
\* totalRevenue >= 0.
C20_StatsNonNegative ==
    \A k \in 1..Len(annualStats) :
        /\ annualStats[k].totalInvoices >= 0
        /\ annualStats[k].totalRevenue >= 0

\* Drain specification: requests on a range that is nearly used up, while
\* the request that downloaded the range may still be in flight.  It starts
\* from the store of the exhaustion specification, or from the same store
\* with the first request of the period (handler p1) still waiting to read
\* the range it inserted, the requests that arrived after it having used
\* all but the last slots.  The requests ask for the current, the next and
\* a past period, on the day before the next period opens or on that day.
ClosedPeriod == PeriodLabel(BaseYear, 1)

DrainDays == {Date(BaseYear, 12, 19), LedgerDay}

Downloader ==
    [IdleProc EXCEPT !.pc = "alloc_select", !.op = "createInvoice",
                     !.userId = "u1", !.yearMonth = CurrentPeriod,
                     !.amount = 1,
                     !.range = Some(NewRange(CurrentPeriod, 1)),
                     !.downloaded = TRUE,
                     !.last = Outcome("createInvoice", "running", "")]

InitDrain ==
    \E used \in (RangeSize - Headroom)..RangeSize, now \in DrainDays,
       inFlight \in BOOLEAN :
        /\ today = now
        /\ users = InitialUsers
        /\ sessions = NoSessions
        /\ invoiceNumbers = {UsedRange(CurrentPeriod, used)}
        /\ rangeIdSeq = 1
        /\ invoices = {}
        /\ invoiceIdSeq = used
        /\ invoiceItems = {}
        /\ annualStats = <<>>
        /\ auditLogs = <<>>
        /\ proc = [p \in Procs |->
                     IF inFlight /\ p = "p1" THEN Downloader ELSE IdleProc]
        /\ calls = IF inFlight THEN 1 ELSE 0
        /\ lost = {}
        /\ allocCount = <<used>>

NextDrain ==
    \E p \in Procs :
        \/ createInvoice(p, {CurrentPeriod, getNextYearMonth(LedgerDay),
                             ClosedPeriod},
                         {"u1"}, {1}, {0}, MaxDrainCalls)
        \/ Continue(p)

SpecDrain == InitDrain /\ [][NextDrain]_vars

GateErrors == {"not_yet_open", "only_current_or_next"}

\* Handler p's createInvoice is rejected in this step by the period gate or
\* by an exhausted range
Rejected(p) ==
    /\ Acts(p)
    /\ proc'[p].pc = "idle"
    /\ proc'[p].last.op = "createInvoice"
    /\ proc'[p].last.result \in GateErrors \cup {"exhausted"}

\* C21 (as claimed): a createInvoice that is rejected by the period gate or
\* by an exhausted range has created no number range, and its rejection
\* leaves the ranges, their cursors, and the invoice, item, AnnualStat and
\* audit tables as they are.
C21_RejectedChangesNothing ==
    [][\A p \in Procs :
          Rejected(p) => /\ UNCHANGED dbVars
                         /\ ~proc[p].downloaded]_vars

\* C21 (amended): the step that rejects a createInvoice changes no table
\* and hands out no number.  The period gate rejects in the first step of
\* the call.  An exhausted range rejects at the read of the cursor, on a
\* cursor above endNumber, and of the steps of the call before that read
\* only the insert of a range writes: a call that found the range of its
\* period has changed nothing when it is rejected.
C21_RejectionFrame ==
    [][\A p \in Procs :
          /\ Rejected(p)
                => /\ UNCHANGED dbVars
                   /\ UNCHANGED <<lost, allocCount>>
                   /\ proc[p].invoiceNumber = None
                   /\ IF proc'[p].last.result \in GateErrors
                      THEN proc[p].pc = "idle"
                      ELSE /\ proc[p].pc = "alloc_select"
                           /\ \E r \in invoiceNumbers :
                                 /\ r.id = proc[p].range[1].id
                                 /\ r.currentNumber > r.endNumber
          /\ (Acts(p) /\ proc[p].op \in {"", "createInvoice"}
                 /\ proc[p].pc \in {"idle", "range_select", "alloc_select"})
                => UNCHANGED dbVars
          /\ (Acts(p) /\ proc[p].pc = "range_insert")
                => /\ proc'[p].downloaded
                   /\ invoiceNumbers \subseteq invoiceNumbers'
                   /\ UNCHANGED ledgerVars
          /\ (Acts(p) /\ proc[p].pc # "range_insert")
                => proc'[p].downloaded = (proc[p].downloaded
                                             /\ proc'[p].pc # "idle")]_vars

\* C21, witness: one request was rejected as exhausted and the other by the
\* period gate, and the store holds the one range it started with, no
\* invoice, no AnnualStat row and no audit entry.
C21_Witness ==
    /\ proc["p1"].last = Outcome("createInvoice", "exhausted", "alloc_select")
    /\ proc["p2"].last.result \in GateErrors
    /\ Cardinality(invoiceNumbers) = 1
    /\ ledgerVars = <<{}, {}, <<>>, <<>> >>

\* C22 (as claimed): the totalInvoices getAnnualStats returns is the number
\* of invoice rows its filter matches (status issued, issue time in the
\* window of the year, the user when one is given), the rows whose
\* grandTotal it sums into totalRevenue.
C22_TotalInvoicesIsCount ==
    [][\A p \in Procs :
          (calls' = calls + 1 /\ Acts(p)
              /\ proc'[p].last.op = "getAnnualStats")
             => proc'[p].stats[1].totalInvoices
                   = Cardinality(StatsRows(proc'[p].target, proc'[p].user))]_vars

----------------------------------------------------------------------------
(* Sessions: login, authenticateToken and the guarded routes *)

\* Variant: the status of the account is not looked at.
Authenticated_exists(user) == user # None

\* authenticateToken, the check of the row getUserById returns
Authenticated(user) == user # None /\ user[1].isActive

\* A request of session s to a route guarded by authenticateToken and, when
\* routeAction is not "", by requirePermission(routeAction).
\* authenticateToken reads the session's userId: without one it answers 401
\* at once; with one it selects the user and goes on or turns to rejecting.
authenticateToken(p, sessionKeys, routeActions, maxCalls) ==
    /\ MayStart(p, maxCalls)
    /\ \E s \in sessionKeys, a \in routeActions :
         LET userId == sessions[s]
             user == IF userId = None THEN None ELSE UserById(userId[1])
             req == [IdleProc EXCEPT !.op = "request", !.sessionId = s,
                                     !.data = a,
                                     !.last = Outcome("request", "running", "")]
         IN  proc' = [proc EXCEPT ![p] =
                IF userId = None
                THEN [IdleProc EXCEPT
                        !.sessionId = s, !.data = a,
                        !.last = Outcome("request", "401", "auth_session")]
                ELSE IF ~Authenticated(user)
                THEN [req EXCEPT !.pc = "auth_reject", !.userId = userId[1]]
                ELSE [req EXCEPT !.pc = IF a = "" THEN "handler"
                                        ELSE "perm_select",
                                 !.userId = userId[1], !.user = user]]
    /\ calls' = calls + 1
    /\ UNCHANGED <<today, users, sessions, dbVars, lost, allocCount>>

\* authenticateToken, rejecting: req.session.userId = undefined and the 401;
\* the session is saved as the response ends.
authenticateToken_reject(p) ==
    /\ proc[p].pc = "auth_reject"
    /\ sessions' = [sessions EXCEPT ![proc[p].sessionId] = None]
    /\ proc' = [proc EXCEPT ![p] =
                  [IdleProc EXCEPT
                     !.sessionId = proc[p].sessionId,
                     !.userId = proc[p].userId, !.data = proc[p].data,
                     !.last = Outcome("request", "401", "auth_reject")]]
    /\ UNCHANGED <<today, users, dbVars, histVars>>

\* requirePermission on the route of the request: checkPermission for
\* req.user.id, then the 403 or the handler.
requirePermission_route(p) ==
    /\ proc[p].pc = "perm_select"
    /\ IF checkPermission(proc[p].userId, proc[p].data)
       THEN proc' = [proc EXCEPT ![p].pc = "handler"]
       ELSE proc' = [proc EXCEPT ![p] =
                       [IdleProc EXCEPT
                          !.sessionId = proc[p].sessionId,
                          !.userId = proc[p].userId, !.data = proc[p].data,
                          !.last = Outcome("request", "403", "perm_select")]]
    /\ UNCHANGED <<today, users, sessions, dbVars, histVars>>

\* The handler of the route runs and answers.
routeHandler(p) ==
    /\ proc[p].pc = "handler"
    /\ proc' = [proc EXCEPT ![p] =
                  [IdleProc EXCEPT
                     !.sessionId = proc[p].sessionId,
                     !.userId = proc[p].userId, !.data = proc[p].data,
                     !.last = Outcome("request", "ok", "handler")]]
    /\ UNCHANGED <<today, users, sessions, dbVars, histVars>>

\* POST /api/auth/login, validateUser: the select of the active account of
\* that name (an account is named by its id).
login(p, sessionKeys, usernames, passwords, maxCalls) ==
    /\ MayStart(p, maxCalls)
    /\ \E s \in sessionKeys, u \in usernames, pw \in passwords :
         LET user == UserById(u)
         IN  proc' = [proc EXCEPT ![p] =
                IF user = None \/ ~user[1].isActive
                THEN [IdleProc EXCEPT
                        !.sessionId = s, !.userId = u,
                        !.last = Outcome("login", "401", "login_select")]
                ELSE [IdleProc EXCEPT
                        !.op = "login", !.pc = "login_compare",
                        !.sessionId = s, !.userId = u, !.user = user,
                        !.hashedPassword = Hash(pw),
                        !.last = Outcome("login", "running", "")]]
    /\ calls' = calls + 1
    /\ UNCHANGED <<today, users, sessions, dbVars, lost, allocCount>>

\* login: bcrypt.compare with the password of the row that was read, and
\* req.session.userId = user.id.
login_compare(p) ==
    /\ proc[p].pc = "login_compare"
    /\ LET isValid == proc[p].hashedPassword = proc[p].user[1].password
       IN  /\ sessions' = IF isValid
                          THEN [sessions EXCEPT ![proc[p].sessionId] =
                                   Some(proc[p].userId)]
                          ELSE sessions
           /\ proc' = [proc EXCEPT ![p] =
                         [IdleProc EXCEPT
                            !.sessionId = proc[p].sessionId,
                            !.userId = proc[p].userId,
                            !.last = Outcome("login",
                                             IF isValid THEN "ok" ELSE "401",
                                             "login_compare")]]
    /\ UNCHANGED <<today, users, dbVars, histVars>>

\* Session specification: the operator u1 is logged in on session s1; the
\* administrator toggles u1's status while requests of the two sessions and
\* logins of u1 arrive.  u1 is an operator or a second administrator.
SessionRoutes == {"", "CREATE_INVOICE", "UPLOAD_INVOICE"}

InitSession ==
    \E role \in {"operator", "admin"} :
        /\ today = LedgerDay
        /\ users = [InitialUsers EXCEPT !["u1"].role = role]
        /\ sessions = [NoSessions EXCEPT !["s1"] = Some("u1")]
        /\ invoiceNumbers = {}
        /\ rangeIdSeq = 0
        /\ invoices = {}
        /\ invoiceIdSeq = 0
        /\ invoiceItems = {}
        /\ annualStats = <<>>
        /\ auditLogs = <<>>
        /\ proc = [p \in Procs |-> IdleProc]
        /\ calls = 0
        /\ lost = {}
        /\ allocCount = <<>>

NextSession ==
    \E p \in Procs :
        \/ authenticateToken(p, SessionKeys, SessionRoutes, MaxSessionCalls)
        \/ authenticateToken_reject(p)
        \/ requirePermission_route(p)
        \/ routeHandler(p)
        \/ login(p, SessionKeys, {"u1"}, {"initial", "wrong"},
                 MaxSessionCalls)
        \/ login_compare(p)
        \/ toggleUserStatus(p, {"a1"}, {"u1"}, MaxSessionCalls)
        \/ toggleUserStatus_select(p)
        \/ toggleUserStatus_update(p)
        \/ logActivity(p)
        \/ DbFault(p)

SpecSession == InitSession /\ [][NextSession]_vars

\* The account a session names is deactivated
Deactivated(userId) ==
    /\ userId # None
    /\ userId[1] \in DOMAIN users
    /\ ~users[userId[1]].isActive

\* C24: while an account is deactivated, every request one of its sessions
\* makes through authenticateToken is turned to the 401, which clears the
\* session's userId and ends the request with no permission check and no
\* handler run; checkPermission answers false for the account for every
\* action, so a request that was authenticated before gets the 403; and
\* only the update of toggleUserStatus on that account changes its status,
\* so this lasts from the toggle that deactivates until a toggle activates
\* the account again.
C24_DeactivatedRejected ==
    [][/\ \A p \in Procs :
            /\ (calls' = calls + 1 /\ Acts(p)
                   /\ proc'[p].last.op = "request"
                   /\ Deactivated(sessions[proc'[p].sessionId]))
                  => proc'[p].pc = "auth_reject"
            /\ (proc[p].pc = "auth_reject" /\ Acts(p))
                  => /\ sessions'[proc[p].sessionId] = None
                     /\ proc'[p].pc = "idle"
                     /\ proc'[p].last.result = "401"
            /\ (proc[p].pc = "perm_select" /\ Acts(p)
                   /\ Deactivated(Some(proc[p].userId)))
                  => /\ proc'[p].pc = "idle"
                     /\ proc'[p].last.result = "403"
       /\ \A u \in DOMAIN users :
            /\ ~users[u].isActive
                  => \A a \in RouteActions \cup {"ADMIN_RESET_PASSWORD"} :
                        ~checkPermission(u, a)
            /\ users'[u].isActive # users[u].isActive
                  => \E p \in Procs :
                        /\ proc[p].pc = "toggle_update"
                        /\ proc[p].data = u
                        /\ proc'[p].pc = "log_insert"]_vars

\* C24, witness: the administrator has deactivated u1, and the request that
\* u1's session s1 made after that was answered 401 and left the session
\* without its userId.
C24_Witness ==
    /\ ~users["u1"].isActive
    /\ \E k \in 1..Len(auditLogs) :
          auditLogs[k].action = "DISABLE_USER" /\ auditLogs[k].resourceId = "u1"
    /\ sessions["s1"] = None
    /\ \E p \in Procs :
          /\ proc[p].last = Outcome("request", "401", "auth_reject")
          /\ proc[p].sessionId = "s1"

====
